---------------------------- MODULE Spec2Model ----------------------------
(***************************************************************************)
(* Model of the assistant pipeline of bertomill/newsin:                    *)
(*   - validateMessages (src/lib/gemini-firebase.ts), the pruning of a     *)
(*     conversation history before it is sent to the completion API;       *)
(*   - the POST handlers (src/app/assistant/api/route.ts, .../stream/      *)
(*     route.ts and the two stream handlers of src/unnamed/part_001);      *)
(*   - the processStream relays of the three streaming handlers.           *)
(***************************************************************************)
EXTENDS Integers, Sequences, FiniteSets, TLC

(***************************************************************************)
(* Bounds of the model.                                                    *)
(***************************************************************************)
\* longest conversation history handed to validateMessages
MaxLen == 4
\* number of distinct message texts
NumContents == 2

\* longest messages array of a request to a POST handler
MaxReqLen == 3
\* most chunks the upstream stream delivers before it ends or fails
MaxReads == 3
\* number of distinct citation lists the upstream can send
NumCiteLists == 2

VARIABLES
  vMessages,   \* validateMessages: the argument `messages`
  vResult,     \* validateMessages: the returned array
  vpc,         \* "input" before the call, "done" after it
  route,              \* which POST handler serves the request
  bodyKind,           \* what request.json() gives: it throws ("unparsable"),
                      \* null ("nullBody"), a value without a messages
                      \* array ("noMessages"), or one with it ("ok")
  messages,           \* body.messages when bodyKind = "ok"
  apiKey,             \* PERPLEXITY_API_KEY is set
  pc,                 \* position of the handler
  formattedMessages,  \* the list handed to the completion utility
  transmitted,        \* `messages` of the body of the outbound fetch
  apiCalls,           \* fetches of the completion API made for this request
  response,           \* the HTTP response returned to the caller
  caught,             \* the error a catch of the handler received, if any
  reads,                 \* processStream: chunks reader.read() has returned
  written,               \* processStream: the writes made to the client stream
  closed,                \* processStream: calls of writer.close()
  citations,             \* part_001: the last non-empty citation list seen (0: none)
  streamStarted,         \* part_001 343
  initialContentBuffer,  \* part_001 342
  fullContent,           \* every content piece received so far
  contentBuffer,         \* stream/route.ts 155
  processedLength,       \* stream/route.ts 157
  lastProcessTime,       \* stream/route.ts 156
  now,                   \* Date.now(), in ms since processStream started
  rewriteCalls,          \* calls of streamProcessContent (the rewrite API)
  sState,        \* streamPerplexityCompletion: state of the returned stream
  sNow,          \* ms since the setTimeout of gemini-firebase.ts 381
  timeoutId,     \* deadline of the timer of line 381, 0 once cleared or fired
  chunkTimers,   \* deadlines of the pending timers of lines 429-435
  sChunks,       \* chunks forwarded by transform()
  lastChunkAt,   \* time of the last transform(), of the start before the first
  cMessages,            \* page.tsx 29: the chat state `messages`
  inputMessage,         \* page.tsx 30
  isProcessing,         \* page.tsx 31
  closureIsProcessing,  \* `isProcessing` as the running handleSendMessage sees it
  apiTimeout,           \* page.tsx 154: "unset" | "armed" | "fired" | "cleared"
  payload,              \* page.tsx 238: payload.messages of the last request
  accumulatedContent,   \* page.tsx 278
  cpc,                  \* position of handleSendMessage
  sends,                \* requests sent so far
  utility,   \* the completion utility called on its own: its name
  upc,       \* position of that call
  uTimer,    \* its timer of gemini-firebase.ts 301 or 381
  uFetches,  \* fetches it has issued
  uError     \* message of the error it rejected with

validateVars == <<vMessages, vResult, vpc>>
postVars == <<route, bodyKind, messages, apiKey, pc, formattedMessages,
              transmitted, apiCalls, response, caught>>
relayVars == <<reads, written, closed, citations, streamStarted,
               initialContentBuffer, fullContent, contentBuffer,
               processedLength, lastProcessTime, now, rewriteCalls>>
streamVars == <<sState, sNow, timeoutId, chunkTimers, sChunks, lastChunkAt>>
clientVars == <<cMessages, inputMessage, isProcessing, closureIsProcessing,
                apiTimeout, payload, accumulatedContent, cpc, sends>>
completionVars == <<utility, upc, uTimer, uFetches, uError>>
vars == <<validateVars, postVars, relayVars, streamVars, clientVars,
          completionVars>>

(***************************************************************************)
(* Message (gemini-firebase.ts 186-189).                                   *)
(***************************************************************************)
Roles == {"system", "user", "assistant"}
\* a text is a sequence of words; the texts a caller writes are one word long
Contents == {<<c>> : c \in 1..NumContents}
Message == [role : Roles, content : Contents]

SeqsUpTo(S, n) == UNION {[1..k -> S] : k \in 0..n}

(***************************************************************************)
(* validateMessages (gemini-firebase.ts 226-273).                          *)
(* The loop state is (result, systemMessagesDone, lastRole); lastRole is   *)
(* "null" until a non-system message has been kept.                        *)
(***************************************************************************)
validateInit == [result |-> <<>>, systemMessagesDone |-> FALSE, lastRole |-> "null"]

\* mutant: a skipped leading assistant message does not end the system head
validateStepLateDone(st, msg) ==
  IF msg.role = "system"
  THEN IF st.systemMessagesDone THEN st
       ELSE [st EXCEPT !.result = Append(st.result, msg)]
  ELSE IF st.lastRole = "null" /\ msg.role # "user" THEN st
  ELSE IF st.lastRole = msg.role THEN st
  ELSE [result |-> Append(st.result, msg), systemMessagesDone |-> TRUE,
        lastRole |-> msg.role]

\* mutant: the consecutive-role check (lines 257-260) is missing
validateStepNoAlternation(st, msg) ==
  IF msg.role = "system"
  THEN IF st.systemMessagesDone THEN st
       ELSE [st EXCEPT !.result = Append(st.result, msg)]
  ELSE IF st.lastRole = "null" /\ msg.role # "user"
  THEN [st EXCEPT !.systemMessagesDone = TRUE]
  ELSE [result |-> Append(st.result, msg), systemMessagesDone |-> TRUE,
        lastRole |-> msg.role]

\* mutant: system messages are kept wherever they occur
validateStepKeepSystem(st, msg) ==
  IF msg.role = "system"
  THEN [st EXCEPT !.result = Append(st.result, msg)]
  ELSE IF st.lastRole = "null" /\ msg.role # "user"
  THEN [st EXCEPT !.systemMessagesDone = TRUE]
  ELSE IF st.lastRole = msg.role
  THEN [st EXCEPT !.systemMessagesDone = TRUE]
  ELSE [result |-> Append(st.result, msg), systemMessagesDone |-> TRUE,
        lastRole |-> msg.role]

\* one iteration of `for (const msg of messages)` (lines 236-264)
validateStep(st, msg) ==
  IF msg.role = "system"
  THEN IF st.systemMessagesDone THEN st
       ELSE [st EXCEPT !.result = Append(st.result, msg)]
  ELSE IF st.lastRole = "null" /\ msg.role # "user"
  THEN [st EXCEPT !.systemMessagesDone = TRUE]
  ELSE IF st.lastRole = msg.role
  THEN [st EXCEPT !.systemMessagesDone = TRUE]
  ELSE [result |-> Append(st.result, msg), systemMessagesDone |-> TRUE,
        lastRole |-> msg.role]

RECURSIVE validateLoop(_, _, _)
validateLoop(msgs, i, st) ==
  IF i > Len(msgs) THEN st
  ELSE validateLoop(msgs, i + 1, validateStep(st, msgs[i]))

\* mutant: the trailing non-user message is not removed
ensureLastUserNoPop(result) ==
  result

\* lines 266-270: result.pop() when length > 1 and the last role is not user
ensureLastUser(result) ==
  IF Len(result) > 1 /\ result[Len(result)].role # "user"
  THEN SubSeq(result, 1, Len(result) - 1)
  ELSE result

\* the array the loop leaves in `result`, before lines 266-270
prunedMessages(msgs) ==
  validateLoop(msgs, 1, validateInit).result

validateMessages(msgs) ==
  IF Len(msgs) = 0 THEN <<>>
  ELSE ensureLastUser(prunedMessages(msgs))

(***************************************************************************)
(* Specification of the pure function: any history within the bounds is    *)
(* handed to validateMessages once.                                        *)
(***************************************************************************)
NoResponse == [status |-> 0, content |-> "none", error |-> "none"]
NoError == [name |-> "none", message |-> "none"]

\* mutant: the status option is left out, so the response is a 200
errorResponseDefaultStatus(content, error) ==
  [status |-> 200, content |-> content, error |-> error]

\* NextResponse.json({content, error}, {status: 500}) and its streaming twin
errorResponse(content, error) ==
  [status |-> 500, content |-> content, error |-> error]

\* processStream has not started: the values of its declarations
\* (stream/route.ts 149-157, part_001 334-343)
RelayStart ==
  /\ reads = 0
  /\ written = <<>>
  /\ closed = 0
  /\ citations = 0
  /\ streamStarted = FALSE
  /\ initialContentBuffer = <<>>
  /\ fullContent = <<>>
  /\ contentBuffer = <<>>
  /\ processedLength = 0
  /\ lastProcessTime = 0
  /\ now = 0
  /\ rewriteCalls = 0

\* streamPerplexityCompletion is not being exercised on its own
StreamIdle ==
  /\ sState = "unused"
  /\ sNow = 0
  /\ timeoutId = 0
  /\ chunkTimers = {}
  /\ sChunks = 0
  /\ lastChunkAt = 0

\* the assistant page is not open
ClientIdle ==
  /\ cMessages = <<>>
  /\ inputMessage = <<>>
  /\ isProcessing = FALSE
  /\ closureIsProcessing = FALSE
  /\ apiTimeout = "unset"
  /\ payload = <<>>
  /\ accumulatedContent = <<>>
  /\ cpc = "closed"
  /\ sends = 0

\* no request is being handled
PostIdle ==
  /\ route = "none"
  /\ bodyKind = "none"
  /\ messages = <<>>
  /\ apiKey = FALSE
  /\ pc = "idle"
  /\ formattedMessages = <<>>
  /\ transmitted = <<>>
  /\ apiCalls = 0
  /\ response = NoResponse
  /\ caught = NoError
  /\ RelayStart

\* no completion utility is being exercised on its own
CompletionIdle ==
  /\ utility = "none"
  /\ upc = "none"
  /\ uTimer = "unset"
  /\ uFetches = 0
  /\ uError = "none"

\* validateMessages is not being exercised on its own
ValidateIdle ==
  /\ vMessages = <<>>
  /\ vResult = <<>>
  /\ vpc = "unused"

ValidateInit ==
  /\ vMessages \in SeqsUpTo(Message, MaxLen)
  /\ vResult = <<>>
  /\ vpc = "input"
  /\ PostIdle
  /\ StreamIdle
  /\ ClientIdle
  /\ CompletionIdle

Validate ==
  /\ vpc = "input"
  /\ vResult' = validateMessages(vMessages)
  /\ vpc' = "done"
  /\ UNCHANGED <<vMessages, postVars, relayVars, streamVars, clientVars,
                 completionVars>>

ValidateNext == Validate

SpecValidate == ValidateInit /\ [][ValidateNext]_vars


(***************************************************************************)
(* The POST handlers.                                                      *)
(*   "json"            src/app/assistant/api/route.ts 16-140               *)
(*   "jsonRace"        src/app/assistant/api/route.ts 156-293              *)
(*   "streamCitations" src/unnamed/part_001 16-220                         *)
(*   "streamSentence"  src/unnamed/part_001 236-496                        *)
(*   "streamGemini"    src/app/assistant/api/stream/route.ts 42-294        *)
(* Texts the handlers add are written with reserved words: <<-1>> is the   *)
(* default preamble "You are a helpful AI assistant ...", <<0>> the        *)
(* personalisation and instruction text appended to the system prompt.     *)
(***************************************************************************)
JsonRoutes == {"json", "jsonRace"}
StreamRoutes == {"streamCitations", "streamSentence", "streamGemini"}
Routes == JsonRoutes \cup StreamRoutes

DefaultPreamble == <<-1>>
SystemSuffix == <<0>>

IsNonSystem(m) == m.role # "system"

\* messages.find(msg => msg.role === 'system'): index of the first one, 0 if none
RECURSIVE findSystemFrom(_, _)
findSystemFrom(msgs, i) ==
  IF i > Len(msgs) THEN 0
  ELSE IF msgs[i].role = "system" THEN i
  ELSE findSystemFrom(msgs, i + 1)

\* content of the system message pushed first
systemContent(r, msgs) ==
  IF r = "streamGemini" THEN SystemSuffix
  ELSE LET k == findSystemFrom(msgs, 1) IN
       IF k # 0 THEN msgs[k].content \o SystemSuffix
       ELSE DefaultPreamble \o SystemSuffix

\* mutant: the request's system messages stay in the conversation history
formatMessagesKeepSystem(r, msgs) ==
  <<[role |-> "system", content |-> systemContent(r, msgs)]>> \o msgs

\* formattedMessages: one system message, then the non-system messages
formatMessages(r, msgs) ==
  <<[role |-> "system", content |-> systemContent(r, msgs)]>>
    \o SelectSeq(msgs, IsNonSystem)

\* error messages that contain the substring 'timed out'
TimedOutMessages == {"apiStatusTimedOutText", "perplexityTimedOut", "raceTimedOut"}

\* mutant: only the name of the error is tested
completionApologyNameOnly(r, err) ==
  IF r = "json" THEN "apologyGeneric"
  ELSE IF err.name = "AbortError" THEN "apologyTimeout"
  ELSE "apologyGeneric"

\* the apology of the catch around the completion call
completionApology(r, err) ==
  IF r = "json" THEN "apologyGeneric"
  ELSE IF err.message \in TimedOutMessages \/ err.name = "AbortError"
  THEN "apologyTimeout"
  ELSE "apologyGeneric"

\* what the completion call can end with, per handler
FetchOutcomes(r) ==
  {"ok", "httpError", "httpErrorTimedOutText", "networkError", "abort"}
    \cup (IF r \in JsonRoutes THEN {"badJson"} ELSE {"noBody"})
    \cup (IF r = "jsonRace" THEN {"raceTimeout"} ELSE {})

\* the error the handler catches for a failed completion call; the utility
\* turns an AbortError into an Error whose message says 'timed out'
caughtError(outcome) ==
  CASE outcome = "httpError" -> [name |-> "Error", message |-> "apiStatus"]
    [] outcome = "httpErrorTimedOutText" ->
         [name |-> "Error", message |-> "apiStatusTimedOutText"]
    [] outcome = "networkError" -> [name |-> "TypeError", message |-> "network"]
    [] outcome = "abort" -> [name |-> "Error", message |-> "perplexityTimedOut"]
    [] outcome = "badJson" -> [name |-> "SyntaxError", message |-> "badJson"]
    [] outcome = "noBody" -> [name |-> "Error", message |-> "noBody"]
    [] outcome = "raceTimeout" -> [name |-> "Error", message |-> "raceTimedOut"]

PostInit ==
  /\ route \in Routes
  /\ bodyKind \in {"unparsable", "nullBody", "noMessages", "ok"}
  /\ messages \in (IF bodyKind = "ok" THEN SeqsUpTo(Message, MaxReqLen) ELSE {<<>>})
  /\ apiKey \in BOOLEAN
  /\ pc = "received"
  /\ formattedMessages = <<>>
  /\ transmitted = <<>>
  /\ apiCalls = 0
  /\ response = NoResponse
  /\ caught = NoError
  /\ RelayStart
  /\ ValidateIdle
  /\ CompletionIdle
  /\ StreamIdle
  /\ ClientIdle

\* mutant: the API key is checked before the messages array
ReceiveKeyFirst ==
  /\ pc = "received"
  /\ IF bodyKind = "unparsable"
     THEN /\ caught' = [name |-> "SyntaxError", message |-> "bodyParse"]
          /\ response' = errorResponse("apologyInternal", "bodyParse")
          /\ pc' = "responded"
          /\ UNCHANGED <<formattedMessages, transmitted, apiCalls>>
     ELSE IF bodyKind = "nullBody"
     THEN /\ caught' = [name |-> "TypeError", message |-> "destructureNull"]
          /\ response' = errorResponse("apologyInternal", "destructureNull")
          /\ pc' = "responded"
          /\ UNCHANGED <<formattedMessages, transmitted, apiCalls>>
     ELSE IF ~apiKey
     THEN /\ response' = errorResponse("apologyConfig", "missingKey")
          /\ pc' = "responded"
          /\ UNCHANGED <<formattedMessages, transmitted, apiCalls, caught>>
     ELSE IF bodyKind = "noMessages"
     THEN /\ response' = [status |-> 400, content |-> "none",
                          error |-> "invalidRequest"]
          /\ pc' = "responded"
          /\ UNCHANGED <<formattedMessages, transmitted, apiCalls, caught>>
     ELSE LET formatted == formatMessages(route, messages)
              validatedMessages == validateMessages(formatted)
          IN /\ formattedMessages' = formatted
             /\ transmitted' = validatedMessages
             /\ apiCalls' = apiCalls + 1
             /\ pc' = "fetching"
             /\ UNCHANGED <<response, caught>>
  /\ UNCHANGED <<route, bodyKind, messages, apiKey>>

\* POST up to its first outbound call or its early return
Receive ==
  /\ pc = "received"
  /\ IF bodyKind = "unparsable"
     THEN \* request.json() throws: the outer catch
          /\ caught' = [name |-> "SyntaxError", message |-> "bodyParse"]
          /\ response' = errorResponse("apologyInternal", "bodyParse")
          /\ pc' = "responded"
          /\ UNCHANGED <<formattedMessages, transmitted, apiCalls>>
     ELSE IF bodyKind = "nullBody"
     THEN \* `const { messages, userContext } = body` throws: the outer catch
          /\ caught' = [name |-> "TypeError", message |-> "destructureNull"]
          /\ response' = errorResponse("apologyInternal", "destructureNull")
          /\ pc' = "responded"
          /\ UNCHANGED <<formattedMessages, transmitted, apiCalls>>
     ELSE IF bodyKind = "noMessages"
     THEN /\ response' = [status |-> 400, content |-> "none",
                          error |-> "invalidRequest"]
          /\ pc' = "responded"
          /\ UNCHANGED <<formattedMessages, transmitted, apiCalls, caught>>
     ELSE IF ~apiKey
     THEN /\ response' = errorResponse("apologyConfig", "missingKey")
          /\ pc' = "responded"
          /\ UNCHANGED <<formattedMessages, transmitted, apiCalls, caught>>
     ELSE LET formatted == formatMessages(route, messages)
              validatedMessages == validateMessages(formatted)
          IN /\ formattedMessages' = formatted
             /\ IF Len(validatedMessages) = 0
                THEN \* 'No valid messages to send to Perplexity API'
                     /\ caught' = [name |-> "Error", message |-> "noValidMessages"]
                     /\ response' =
                          errorResponse(completionApology(route, caught'),
                                        "noValidMessages")
                     /\ pc' = "responded"
                     /\ UNCHANGED <<transmitted, apiCalls>>
                ELSE /\ transmitted' = validatedMessages
                     /\ apiCalls' = apiCalls + 1
                     /\ pc' = "fetching"
                     /\ UNCHANGED <<response, caught>>
  /\ UNCHANGED <<route, bodyKind, messages, apiKey>>

\* mutant: a failed completion call is made again
ApiRespondRetry ==
  /\ pc = "fetching"
  /\ \E outcome \in FetchOutcomes(route) :
       IF outcome = "ok"
       THEN /\ IF route \in JsonRoutes
               THEN /\ response' = [status |-> 200, content |-> "completion",
                                    error |-> "none"]
                    /\ pc' = "responded"
               ELSE /\ response' = [status |-> 200, content |-> "stream",
                                    error |-> "none"]
                    /\ pc' = "relaying"
            /\ UNCHANGED caught
       ELSE /\ pc' = "received"
            /\ UNCHANGED <<response, caught>>
  /\ UNCHANGED <<route, bodyKind, messages, apiKey, formattedMessages,
                 transmitted, apiCalls>>

\* the completion call settles
ApiRespond ==
  /\ pc = "fetching"
  /\ \E outcome \in FetchOutcomes(route) :
       IF outcome = "ok"
       THEN /\ IF route \in JsonRoutes
               THEN /\ response' = [status |-> 200, content |-> "completion",
                                    error |-> "none"]
                    /\ pc' = "responded"
               ELSE /\ response' = [status |-> 200, content |-> "stream",
                                    error |-> "none"]
                    /\ pc' = "relaying"
            /\ UNCHANGED caught
       ELSE /\ caught' = caughtError(outcome)
            /\ response' =
                 errorResponse(completionApology(route, caughtError(outcome)),
                               caughtError(outcome).message)
            /\ pc' = "responded"
  /\ UNCHANGED <<route, bodyKind, messages, apiKey, formattedMessages,
                 transmitted, apiCalls>>

PostNext ==
  \/ Receive /\ UNCHANGED <<validateVars, completionVars, relayVars, streamVars, clientVars>>
  \/ ApiRespond /\ UNCHANGED <<validateVars, completionVars, relayVars, streamVars, clientVars>>

SpecPost == PostInit /\ [][PostNext]_vars

(***************************************************************************)
(* getPerplexityCompletion (gemini-firebase.ts 282-353) and                *)
(* streamPerplexityCompletion (362-457) called on their own with any       *)
(* message list: the list is validated, and unless nothing is left of it   *)
(* the timer is started and one fetch is issued, which settles as the      *)
(* completion call of a handler does.                                      *)
(***************************************************************************)
Utilities == {"getPerplexityCompletion", "streamPerplexityCompletion"}

\* what the fetch of a utility can end with
UtilityOutcomes(u) ==
  IF u = "getPerplexityCompletion" THEN FetchOutcomes("json")
  ELSE FetchOutcomes("streamGemini")

CompletionInit ==
  /\ utility \in Utilities
  /\ upc = "called"
  /\ uTimer = "unset"
  /\ uFetches = 0
  /\ uError = "none"
  /\ vMessages \in SeqsUpTo(Message, MaxReqLen)
  /\ vResult = <<>>
  /\ vpc = "input"
  /\ PostIdle
  /\ StreamIdle
  /\ ClientIdle

\* mutant: the timer is started before the list is validated
CallCompletionTimerFirst ==
  /\ upc = "called"
  /\ vResult' = validateMessages(vMessages)
  /\ vpc' = "done"
  /\ uTimer' = "armed"
  /\ IF Len(vResult') = 0
     THEN /\ uError' = "noValidMessages"
          /\ upc' = "rejected"
          /\ UNCHANGED uFetches
     ELSE /\ uFetches' = uFetches + 1
          /\ upc' = "fetching"
          /\ UNCHANGED uError
  /\ UNCHANGED <<utility, vMessages>>

\* lines 286-305 and 366-385: up to the fetch, or to the throw of line 294
\* or 374, which the catch of line 346 or 450 passes on as it is
CallCompletion ==
  /\ upc = "called"
  /\ vResult' = validateMessages(vMessages)
  /\ vpc' = "done"
  /\ IF Len(vResult') = 0
     THEN /\ uError' = "noValidMessages"
          /\ upc' = "rejected"
          /\ UNCHANGED <<uTimer, uFetches>>
     ELSE /\ uTimer' = "armed"
          /\ uFetches' = uFetches + 1
          /\ upc' = "fetching"
          /\ UNCHANGED uError
  /\ UNCHANGED <<utility, vMessages>>

\* the fetch settles: lines 305-352 and 385-456.  The timer fires when the
\* fetch is aborted; it is cleared on every other path but the return of
\* the stream (line 444).
FetchSettles ==
  /\ upc = "fetching"
  /\ \E outcome \in UtilityOutcomes(utility) :
       /\ uTimer' = IF outcome = "abort" THEN "fired"
                    ELSE IF outcome = "ok" /\ utility = "streamPerplexityCompletion"
                    THEN uTimer
                    ELSE "cleared"
       /\ IF outcome = "ok"
          THEN upc' = "resolved" /\ UNCHANGED uError
          ELSE upc' = "rejected" /\ uError' = caughtError(outcome).message
  /\ UNCHANGED <<utility, uFetches, validateVars>>

CompletionNext ==
  \/ CallCompletion /\ UNCHANGED <<postVars, relayVars, streamVars, clientVars>>
  \/ FetchSettles /\ UNCHANGED <<postVars, relayVars, streamVars, clientVars>>

SpecCompletion == CompletionInit /\ [][CompletionNext]_vars



(***************************************************************************)
(* processStream of the two handlers of src/unnamed/part_001: each         *)
(* upstream `data:` line is JSON carrying an optional content delta and an *)
(* optional citation list.  A delta is "" (absent or empty), " " (white    *)
(* space), "w" (text not ending a sentence) or "s." (text ending with      *)
(* '.', '!' or '?').  One read delivers one line.                          *)
(***************************************************************************)
Deltas == {"", " ", "w", "s."}

JsonLines ==
  {[parses |-> FALSE, delta |-> "", citations |-> 0]}
    \cup [parses : {TRUE}, delta : Deltas, citations : 0..NumCiteLists]

\* one writer.write(...)
Wr(kind, text) == [kind |-> kind, text |-> text]

\* `if (jsonData.citations && jsonData.citations.length > 0) citations = ...`
storeCitations(old, line) ==
  IF line.parses /\ line.citations > 0 THEN line.citations ELSE old

\* mutant: the citation text is written before the loop's content
citationsTailFirst(wr, cites) ==
  IF cites > 0 THEN <<Wr("citations", <<cites>>)>> \o wr ELSE wr

\* `if (citations.length > 0) await writer.write(citationsText)`
citationsTail(wr, cites) ==
  IF cites > 0 THEN Append(wr, Wr("citations", <<cites>>)) ELSE wr

\* initialContentBuffer.match(/[.!?]\s*$/)
endsSentence(buf) ==
  \E i \in 1..Len(buf) :
    buf[i] = "s." /\ \A j \in (i + 1)..Len(buf) : buf[j] = " "

\* part_001 122-161: one chunk of the citation-appending handler
CitationsLine ==
  /\ pc = "relaying" /\ route = "streamCitations"
  /\ reads < MaxReads
  /\ \E line \in JsonLines :
       /\ written' = IF line.parses /\ line.delta # ""
                     THEN Append(written, Wr("content", <<line.delta>>))
                     ELSE written
       /\ citations' = storeCitations(citations, line)
  /\ reads' = reads + 1
  /\ UNCHANGED <<postVars, closed, streamStarted, initialContentBuffer,
                 fullContent, contentBuffer, processedLength, lastProcessTime,
                 now, rewriteCalls>>

\* part_001 346-428: one chunk of the sentence-buffering handler
SentenceLine ==
  /\ pc = "relaying" /\ route = "streamSentence"
  /\ reads < MaxReads
  /\ \E line \in JsonLines :
       /\ IF line.parses /\ line.delta # ""
          THEN /\ fullContent' = Append(fullContent, line.delta)
               /\ IF ~streamStarted
                  THEN LET buf == Append(initialContentBuffer, line.delta) IN
                       /\ initialContentBuffer' = buf
                       /\ IF endsSentence(buf)
                          THEN /\ streamStarted' = TRUE
                               /\ written' = Append(written, Wr("content", buf))
                          ELSE UNCHANGED <<streamStarted, written>>
                  ELSE /\ written' = Append(written, Wr("content", <<line.delta>>))
                       /\ UNCHANGED <<streamStarted, initialContentBuffer>>
          ELSE UNCHANGED <<fullContent, streamStarted, initialContentBuffer, written>>
       /\ citations' = storeCitations(citations, line)
  /\ reads' = reads + 1
  /\ UNCHANGED <<postVars, closed, contentBuffer, processedLength,
                 lastProcessTime, now, rewriteCalls>>

\* reader.read() gives done: part_001 125-127, 163-167, 172-174 and
\* 349-351, 430-443, 448-450
JsonDone ==
  /\ pc = "relaying" /\ route \in {"streamCitations", "streamSentence"}
  /\ LET flushed == IF route = "streamSentence" /\ ~streamStarted
                       /\ Len(initialContentBuffer) > 0
                    THEN Append(written, Wr("content", initialContentBuffer))
                    ELSE written
     IN written' = citationsTail(flushed, citations)
  /\ closed' = closed + 1
  /\ pc' = "closed"
  /\ UNCHANGED <<route, bodyKind, messages, apiKey, formattedMessages,
                 transmitted, apiCalls, response, caught, reads, citations,
                 streamStarted, initialContentBuffer, fullContent,
                 contentBuffer, processedLength, lastProcessTime, now,
                 rewriteCalls>>

\* reader.read() rejects: the catch and finally of part_001 169-174, 445-450
JsonFail ==
  /\ pc = "relaying" /\ route \in {"streamCitations", "streamSentence"}
  /\ written' = Append(written, Wr("error", <<>>))
  /\ closed' = closed + 1
  /\ pc' = "closed"
  /\ UNCHANGED <<route, bodyKind, messages, apiKey, formattedMessages,
                 transmitted, apiCalls, response, caught, reads, citations,
                 streamStarted, initialContentBuffer, fullContent,
                 contentBuffer, processedLength, lastProcessTime, now,
                 rewriteCalls>>


(***************************************************************************)
(* processStream of src/app/assistant/api/stream/route.ts.  The payload of *)
(* a `data:` line is a piece of text of which the relay observes the       *)
(* length, whether it ends with [.!?]\s* and whether it brings a           *)
(* completion marker into the buffer; '[DONE]' is skipped.  A text is the  *)
(* sequence of its pieces; written text is named by its character offsets  *)
(* <<from, to>> in fullContent.  One read delivers one line.               *)
(***************************************************************************)
MIN_CONTENT_LENGTH == 50
MAX_BUFFER_SIZE == 200
MAX_WAIT_TIME == 5000

Pieces ==
  {p \in [len : {20, 60, 200}, ends : BOOLEAN, marker : BOOLEAN] :
     ~(p.ends /\ p.marker)}

PayloadLines ==
  {[done |-> TRUE, piece |-> [len |-> 0, ends |-> FALSE, marker |-> FALSE]]}
    \cup [done : {FALSE}, piece : Pieces]

\* time that passes between two reads
Delays == {0, MAX_WAIT_TIME}

\* streamProcessContent and the iteration of its stream: the rewritten text
\* is written ("stream"), the call fails and null is returned ("null"), or
\* the iteration of the stream throws ("throws")
RewriteOutcomes == {"stream", "null", "throws"}

RECURSIVE StrLen(_)
StrLen(text) == IF text = <<>> THEN 0 ELSE Head(text).len + StrLen(Tail(text))

\* isCompleteThought (stream/route.ts 30-33)
isCompleteThought(content) ==
  /\ content # <<>>
  /\ \/ content[Len(content)].ends
     \/ \E i \in 1..Len(content) : content[i].marker

\* mutant: every buffer is flushed at once
shouldProcessAlways(buf, timeWaiting) ==
  StrLen(buf) >= 0 /\ timeWaiting >= 0

\* mutant: the size of the buffer alone never forces a flush
shouldProcessNoOversize(buf, timeWaiting) ==
  LET hasMinLength == StrLen(buf) >= MIN_CONTENT_LENGTH
      isComplete == isCompleteThought(buf)
      waitedTooLong == timeWaiting >= MAX_WAIT_TIME
  IN hasMinLength /\ (isComplete \/ waitedTooLong)

\* the condition of stream/route.ts 196-206
shouldProcess(buf, timeWaiting) ==
  LET hasMinLength == StrLen(buf) >= MIN_CONTENT_LENGTH
      isComplete == isCompleteThought(buf)
      isOversize == StrLen(buf) >= MAX_BUFFER_SIZE
      waitedTooLong == timeWaiting >= MAX_WAIT_TIME
  IN hasMinLength /\ (isComplete \/ isOversize \/ waitedTooLong)

\* the writes of one rewrite of the text <<from, to>>; a throw is followed
\* by the raw write of the buffer <<bufFrom, to>> in the catch
rewriteWrites(outcome, from, bufFrom, to) ==
  CASE outcome = "stream" -> <<Wr("rewritten", <<from, to>>)>>
    [] outcome = "null" -> <<Wr("raw", <<from, to>>)>>
    [] outcome = "throws" -> <<Wr("raw", <<bufFrom, to>>)>>

\* stream/route.ts 160-161, 178-235: one chunk
GeminiLine ==
  /\ pc = "relaying" /\ route = "streamGemini"
  /\ reads < MaxReads
  /\ reads' = reads + 1
  /\ \E line \in PayloadLines, dt \in Delays, outcome \in RewriteOutcomes :
       /\ now' = now + dt
       /\ IF line.done
          THEN UNCHANGED <<written, fullContent, contentBuffer, processedLength,
                           lastProcessTime, rewriteCalls>>
          ELSE LET buf == Append(contentBuffer, line.piece)
                   full == Append(fullContent, line.piece)
                   to == StrLen(full)
                   bufFrom == to - StrLen(buf)
                   newLen == IF StrLen(buf) > processedLength
                             THEN StrLen(buf) - processedLength ELSE 0
               IN /\ fullContent' = full
                  /\ IF shouldProcess(buf, now' - lastProcessTime)
                     THEN /\ contentBuffer' = <<>>
                          /\ lastProcessTime' = now'
                          /\ IF newLen > 0
                             THEN /\ rewriteCalls' = rewriteCalls + 1
                                  /\ written' = written \o
                                       rewriteWrites(outcome, to - newLen, bufFrom, to)
                                  /\ processedLength' =
                                       IF outcome \in {"stream", "null"}
                                       THEN StrLen(buf) ELSE processedLength
                             ELSE UNCHANGED <<rewriteCalls, written, processedLength>>
                     ELSE /\ contentBuffer' = buf
                          /\ UNCHANGED <<lastProcessTime, rewriteCalls, written,
                                         processedLength>>
  /\ UNCHANGED <<postVars, closed, citations, streamStarted, initialContentBuffer>>

\* mutant: the remaining buffer is sent to the rewrite even when it is empty
finalRewriteAlways(buf) ==
  Len(buf) >= 0

\* `if (contentBuffer.length > 0)` of stream/route.ts 165
finalRewriteNeeded(buf) ==
  Len(buf) > 0

\* reader.read() gives done: stream/route.ts 163-176, 240-248
GeminiDone ==
  /\ pc = "relaying" /\ route = "streamGemini"
  /\ \E outcome \in RewriteOutcomes :
       LET to == StrLen(fullContent)
           from == to - StrLen(contentBuffer)
       IN IF finalRewriteNeeded(contentBuffer)
          THEN /\ rewriteCalls' = rewriteCalls + 1
               /\ written' = written \o rewriteWrites(outcome, from, from, to)
                    \o (IF outcome = "throws"
                        THEN <<Wr("error", <<>>)>> ELSE <<>>)
          ELSE UNCHANGED <<rewriteCalls, written>>
  /\ closed' = closed + 1
  /\ pc' = "closed"
  /\ UNCHANGED <<route, bodyKind, messages, apiKey, formattedMessages,
                 transmitted, apiCalls, response, caught, reads, citations,
                 streamStarted, initialContentBuffer, fullContent,
                 contentBuffer, processedLength, lastProcessTime, now>>

\* mutant: the catch writes the error text only
GeminiFailDropsBuffer ==
  /\ pc = "relaying" /\ route = "streamGemini"
  /\ written' = Append(written, Wr("error", <<>>))
  /\ closed' = closed + 1
  /\ pc' = "closed"
  /\ UNCHANGED <<route, bodyKind, messages, apiKey, formattedMessages,
                 transmitted, apiCalls, response, caught, reads, citations,
                 streamStarted, initialContentBuffer, fullContent,
                 contentBuffer, processedLength, lastProcessTime, now,
                 rewriteCalls>>

\* reader.read() rejects: stream/route.ts 240-248
GeminiFail ==
  /\ pc = "relaying" /\ route = "streamGemini"
  /\ LET to == StrLen(fullContent)
         from == to - StrLen(contentBuffer)
     IN written' = (IF Len(contentBuffer) > 0
                    THEN Append(written, Wr("raw", <<from, to>>)) ELSE written)
                     \o <<Wr("error", <<>>)>>
  /\ closed' = closed + 1
  /\ pc' = "closed"
  /\ UNCHANGED <<route, bodyKind, messages, apiKey, formattedMessages,
                 transmitted, apiCalls, response, caught, reads, citations,
                 streamStarted, initialContentBuffer, fullContent,
                 contentBuffer, processedLength, lastProcessTime, now,
                 rewriteCalls>>

(***************************************************************************)
(* Specification of one request from its arrival to the close of the       *)
(* client stream.  The conversation is a single user turn: the relay does  *)
(* not read it.                                                            *)
(***************************************************************************)
RelayRequests == {<<[role |-> "user", content |-> <<1>>]>>}

RelayInit ==
  /\ route \in Routes
  /\ bodyKind \in {"unparsable", "nullBody", "noMessages", "ok"}
  /\ messages \in (IF bodyKind = "ok" THEN RelayRequests ELSE {<<>>})
  /\ apiKey \in BOOLEAN
  /\ pc = "received"
  /\ formattedMessages = <<>>
  /\ transmitted = <<>>
  /\ apiCalls = 0
  /\ response = NoResponse
  /\ caught = NoError
  /\ RelayStart
  /\ ValidateIdle
  /\ CompletionIdle
  /\ StreamIdle
  /\ ClientIdle

RelayNext ==
  \/ Receive /\ UNCHANGED <<validateVars, completionVars, relayVars, streamVars, clientVars>>
  \/ ApiRespond /\ UNCHANGED <<validateVars, completionVars, relayVars, streamVars, clientVars>>
  \/ CitationsLine /\ UNCHANGED <<validateVars, completionVars, streamVars, clientVars>>
  \/ SentenceLine /\ UNCHANGED <<validateVars, completionVars, streamVars, clientVars>>
  \/ JsonDone /\ UNCHANGED <<validateVars, completionVars, streamVars, clientVars>>
  \/ JsonFail /\ UNCHANGED <<validateVars, completionVars, streamVars, clientVars>>
  \/ GeminiLine /\ UNCHANGED <<validateVars, completionVars, streamVars, clientVars>>
  \/ GeminiDone /\ UNCHANGED <<validateVars, completionVars, streamVars, clientVars>>
  \/ GeminiFail /\ UNCHANGED <<validateVars, completionVars, streamVars, clientVars>>

SpecRelay == RelayInit /\ [][RelayNext]_vars

(***************************************************************************)
(* The Gemini-backed handler alone, for a request that reaches the relay   *)
(* or fails before it.  The upstream stream ends or fails at some time:    *)
(* a pending reader.read() settles, and so does every awaited call of the  *)
(* rewrite.                                                                *)
(***************************************************************************)
GeminiInit ==
  /\ route = "streamGemini"
  /\ bodyKind = "ok"
  /\ messages \in RelayRequests
  /\ apiKey = TRUE
  /\ pc = "received"
  /\ formattedMessages = <<>>
  /\ transmitted = <<>>
  /\ apiCalls = 0
  /\ response = NoResponse
  /\ caught = NoError
  /\ RelayStart
  /\ ValidateIdle
  /\ CompletionIdle
  /\ StreamIdle
  /\ ClientIdle

UpstreamSettles ==
  (GeminiDone \/ GeminiFail) /\ UNCHANGED <<validateVars, completionVars, streamVars, clientVars>>

GeminiNext ==
  \/ Receive /\ UNCHANGED <<validateVars, completionVars, relayVars, streamVars, clientVars>>
  \/ ApiRespond /\ UNCHANGED <<validateVars, completionVars, relayVars, streamVars, clientVars>>
  \/ GeminiLine /\ UNCHANGED <<validateVars, completionVars, streamVars, clientVars>>
  \/ GeminiDone /\ UNCHANGED <<validateVars, completionVars, streamVars, clientVars>>
  \/ GeminiFail /\ UNCHANGED <<validateVars, completionVars, streamVars, clientVars>>

SpecGeminiFair ==
  GeminiInit /\ [][GeminiNext]_vars /\ WF_vars(UpstreamSettles)


(***************************************************************************)
(* The stream returned by streamPerplexityCompletion (gemini-firebase.ts   *)
(* 362-457) once the fetch has answered with a body: the timer of line 381 *)
(* is still pending.  transform() clears that timer and starts another     *)
(* one, whose id is not kept; flush() clears the timer of line 381.  A     *)
(* timer fires when its deadline is the next event: time is the time of    *)
(* the last event.                                                         *)
(***************************************************************************)
\* the delay of the timers of lines 381 and 435
STREAM_TIMEOUT == 55000

\* most chunks the completion API sends
MaxChunks == 3

\* time between two events of the upstream body (a chunk or its end)
Gaps == {10000, 30000, 50000}

\* deadlines of the timers still pending
PendingDeadlines ==
  chunkTimers \cup (IF timeoutId # 0 THEN {timeoutId} ELSE {})

\* no pending timer fires before or at the time t
NoneDueBy(t) == \A d \in PendingDeadlines : d > t

\* transform(chunk, controller), lines 421-436
Transform ==
  /\ sState = "open"
  /\ sChunks < MaxChunks
  /\ \E gap \in Gaps :
       /\ NoneDueBy(sNow + gap)
       /\ sNow' = sNow + gap
       /\ timeoutId' = 0
       /\ chunkTimers' = chunkTimers \cup {sNow + gap + STREAM_TIMEOUT}
       /\ lastChunkAt' = sNow + gap
  /\ sChunks' = sChunks + 1
  /\ UNCHANGED sState

\* flush(), lines 437-440: the upstream body ended
Flush ==
  /\ sState = "open"
  /\ \E gap \in Gaps :
       /\ NoneDueBy(sNow + gap)
       /\ sNow' = sNow + gap
  /\ timeoutId' = 0
  /\ sState' = "done"
  /\ UNCHANGED <<chunkTimers, sChunks, lastChunkAt>>

\* the timer of line 381 fires: controller.abort() fails the body
AbortFires ==
  /\ timeoutId # 0
  /\ \A d \in PendingDeadlines : timeoutId <= d
  /\ sNow' = timeoutId
  /\ timeoutId' = 0
  /\ sState' = IF sState = "open" THEN "aborted" ELSE sState
  /\ UNCHANGED <<chunkTimers, sChunks, lastChunkAt>>

\* a timer of lines 429-435 fires: controller.error(new Error('Stream
\* processing timed out')), without effect on a stream that is closed or
\* already errored
ChunkTimerFires ==
  /\ \E t \in chunkTimers :
       /\ \A d \in PendingDeadlines : t <= d
       /\ sNow' = t
       /\ chunkTimers' = chunkTimers \ {t}
  /\ sState' = IF sState = "open" THEN "timedOut" ELSE sState
  /\ UNCHANGED <<timeoutId, sChunks, lastChunkAt>>

StreamInit ==
  /\ sState = "open"
  /\ sNow \in {0} \cup Gaps
  /\ timeoutId = STREAM_TIMEOUT
  /\ chunkTimers = {}
  /\ sChunks = 0
  /\ lastChunkAt = sNow
  /\ ValidateIdle
  /\ CompletionIdle
  /\ PostIdle
  /\ ClientIdle

StreamNext ==
  \/ Transform /\ UNCHANGED <<validateVars, completionVars, postVars, relayVars, clientVars>>
  \/ Flush /\ UNCHANGED <<validateVars, completionVars, postVars, relayVars, clientVars>>
  \/ AbortFires /\ UNCHANGED <<validateVars, completionVars, postVars, relayVars, clientVars>>
  \/ ChunkTimerFires /\ UNCHANGED <<validateVars, completionVars, postVars, relayVars, clientVars>>

SpecStream == StreamInit /\ [][StreamNext]_vars


(***************************************************************************)
(* handleSendMessage of the assistant page (src/app/assistant/page.tsx     *)
(* 124-347) and the request it sends to /assistant/api/stream.  The        *)
(* handler reads the `messages`, `inputMessage` and `isProcessing` of the  *)
(* render that created it; the placeholder it appends is the last message  *)
(* of the chat until the handler ends.  The timer of line 154 fires when   *)
(* 15000 ms pass before the fetch settles.  The content of a chat message  *)
(* is the word of its position; <<-2>> is the text typed by the user,      *)
(* <<-3>> the 'still processing' notice, <<-4>> the error text and <<-5>>  *)
(* a chunk of the response body.                                           *)
(***************************************************************************)
\* longest chat state of arbitrary roles
MaxChatLen == 3
\* most user/assistant exchanges of a chat state shaped as a conversation
MaxRounds == 5
\* most requests the user sends
MaxSends == 2
\* most chunks the client reads from a response body
MaxClientReads == 1

\* `if (alternatingMessages.length >= 8)`, page.tsx 209
HISTORY_LIMIT == 8

TypedText == <<-2>>
NoticeText == <<-3>>
ErrorText == <<-4>>
ChunkText == <<-5>>

Inputs == {<<>>, TypedText}

numbered(rs) == [i \in 1..Len(rs) |-> [role |-> rs[i], content |-> <<i>>]]

RECURSIVE exchanges(_)
exchanges(n) ==
  IF n = 0 THEN <<>> ELSE exchanges(n - 1) \o <<"user", "assistant">>

\* the chat after initializeChat (page.tsx 57) and n answered questions,
\* with or without the system and welcome messages
Conversations ==
  {numbered(head \o exchanges(n)) :
     head \in {<<>>, <<"system">>, <<"assistant">>, <<"system", "assistant">>},
     n \in 0..MaxRounds}

ChatStates ==
  {numbered(rs) : rs \in SeqsUpTo(Roles, MaxChatLen)} \cup Conversations

\* lines 185-188; indices count from 0 as in the source
startIdx(nonSystemMessages) ==
  IF Len(nonSystemMessages) > 0 /\ nonSystemMessages[1].role = "assistant"
  THEN Len(nonSystemMessages) - 2
  ELSE Len(nonSystemMessages) - 1

\* mutant: a message of the same role as the previous one is kept
RECURSIVE alternatingLoopNoSkip(_, _, _, _)
alternatingLoopNoSkip(nonSystemMessages, i, alternatingMessages, lastRole) ==
  IF i < 0 THEN alternatingMessages
  ELSE LET msg == nonSystemMessages[i + 1]
           added == <<[role |-> msg.role, content |-> msg.content]>>
                      \o alternatingMessages
       IN IF Len(added) >= HISTORY_LIMIT THEN added
          ELSE alternatingLoopNoSkip(nonSystemMessages, i - 1, added, msg.role)

\* the loop of lines 192-212
RECURSIVE alternatingLoop(_, _, _, _)
alternatingLoop(nonSystemMessages, i, alternatingMessages, lastRole) ==
  IF i < 0 THEN alternatingMessages
  ELSE LET msg == nonSystemMessages[i + 1] IN
       IF msg.role = lastRole
       THEN alternatingLoop(nonSystemMessages, i - 1, alternatingMessages, lastRole)
       ELSE LET added == <<[role |-> msg.role, content |-> msg.content]>>
                           \o alternatingMessages
            IN IF Len(added) >= HISTORY_LIMIT THEN added
               ELSE alternatingLoop(nonSystemMessages, i - 1, added, msg.role)

\* mutant: a leading assistant message is left in place
shiftNonUserNever(alternatingMessages) ==
  alternatingMessages

\* lines 215-218
shiftNonUser(alternatingMessages) ==
  IF Len(alternatingMessages) > 0 /\ alternatingMessages[1].role # "user"
  THEN Tail(alternatingMessages)
  ELSE alternatingMessages

\* lines 223-235
addCurrent(alternatingMessages, text) ==
  LET current == [role |-> "user", content |-> text]
      n == Len(alternatingMessages)
  IN IF n > 0 /\ alternatingMessages[n].role = "user"
     THEN [alternatingMessages EXCEPT ![n] = current]
     ELSE Append(alternatingMessages, current)

\* payload.messages, lines 173-245
buildPayload(msgs, text) ==
  LET k == findSystemFrom(msgs, 1)
      nonSystemMessages == SelectSeq(msgs, IsNonSystem)
      alternatingMessages ==
        alternatingLoop(nonSystemMessages, startIdx(nonSystemMessages), <<>>, "null")
  IN <<[role |-> "system",
        content |-> IF k # 0 THEN msgs[k].content ELSE DefaultPreamble]>>
       \o addCurrent(shiftNonUser(alternatingMessages), text)

\* the content of the placeholder message becomes f(content)
placeholderAppend(text) ==
  [cMessages EXCEPT ![Len(cMessages)].content = @ \o text]

placeholderSet(text) ==
  [cMessages EXCEPT ![Len(cMessages)].content = text]

\* the input box changes (page.tsx 359 and the input's onChange)
setInputMessage ==
  /\ cpc = "idle"
  /\ \E text \in Inputs : text # inputMessage /\ inputMessage' = text
  /\ UNCHANGED <<cMessages, isProcessing, closureIsProcessing, apiTimeout,
                 payload, accumulatedContent, cpc, sends, postVars>>

\* handleSendMessage up to the fetch of line 252
handleSendMessage ==
  /\ cpc = "idle"
  /\ sends < MaxSends
  /\ inputMessage # <<>> /\ ~isProcessing
  /\ cMessages' = cMessages \o
       <<[role |-> "user", content |-> inputMessage],
         [role |-> "assistant", content |-> <<>>]>>
  /\ inputMessage' = <<>>
  /\ closureIsProcessing' = isProcessing
  /\ isProcessing' = TRUE
  /\ apiTimeout' = "armed"
  /\ payload' = buildPayload(cMessages, inputMessage)
  /\ accumulatedContent' = <<>>
  /\ cpc' = "waiting"
  /\ sends' = sends + 1
  /\ messages' = payload'
  /\ bodyKind' = "ok"
  /\ pc' = "received"
  /\ formattedMessages' = <<>>
  /\ transmitted' = <<>>
  /\ apiCalls' = 0
  /\ response' = NoResponse
  /\ caught' = NoError
  /\ UNCHANGED <<route, apiKey>>

\* the callback of lines 154-169
apiTimeoutFires ==
  /\ apiTimeout = "armed"
  /\ apiTimeout' = "fired"
  /\ cMessages' = IF closureIsProcessing THEN placeholderAppend(NoticeText)
                  ELSE cMessages
  /\ UNCHANGED <<inputMessage, isProcessing, closureIsProcessing, payload,
                 accumulatedContent, cpc, sends, postVars>>

\* clearTimeout(apiTimeout), lines 261 and 329
clearApiTimeout(t) == IF t = "armed" THEN "cleared" ELSE t

\* the fetch of line 252 resolves with the handler's response: lines 260-278,
\* and 327-346 when the response is not ok
fetchResolves ==
  /\ cpc = "waiting"
  /\ pc \in {"responded", "relaying"}
  /\ apiTimeout' = clearApiTimeout(apiTimeout)
  /\ IF response.status = 200
     THEN /\ cpc' = "reading"
          /\ UNCHANGED <<cMessages, isProcessing>>
     ELSE /\ cMessages' = placeholderSet(ErrorText)
          /\ isProcessing' = FALSE
          /\ cpc' = "idle"
  /\ UNCHANGED <<inputMessage, closureIsProcessing, payload,
                 accumulatedContent, sends, postVars>>

\* the fetch of line 252 rejects: lines 327-346
fetchRejects ==
  /\ cpc = "waiting"
  /\ apiTimeout' = clearApiTimeout(apiTimeout)
  /\ cMessages' = placeholderSet(ErrorText)
  /\ isProcessing' = FALSE
  /\ cpc' = "idle"
  /\ UNCHANGED <<inputMessage, closureIsProcessing, payload,
                 accumulatedContent, sends, postVars>>

\* one chunk of the body, lines 282-302
readChunk ==
  /\ cpc = "reading"
  /\ Len(accumulatedContent) < MaxClientReads
  /\ accumulatedContent' = accumulatedContent \o ChunkText
  /\ cMessages' = placeholderSet(accumulatedContent')
  /\ UNCHANGED <<inputMessage, isProcessing, closureIsProcessing, apiTimeout,
                 payload, cpc, sends, postVars>>

\* reader.read() gives done: lines 284-286, 305-325, 344-346
readDone ==
  /\ cpc = "reading"
  /\ isProcessing' = FALSE
  /\ cpc' = "idle"
  /\ UNCHANGED <<cMessages, inputMessage, closureIsProcessing, apiTimeout,
                 payload, accumulatedContent, sends, postVars>>

\* reader.read() rejects: lines 320-346
readFails ==
  /\ cpc = "reading"
  /\ apiTimeout' = clearApiTimeout(apiTimeout)
  /\ cMessages' = placeholderSet(ErrorText)
  /\ isProcessing' = FALSE
  /\ cpc' = "idle"
  /\ UNCHANGED <<inputMessage, closureIsProcessing, payload,
                 accumulatedContent, sends, postVars>>

ClientInit ==
  /\ cMessages \in ChatStates
  /\ inputMessage = <<>>
  /\ isProcessing = FALSE
  /\ closureIsProcessing = FALSE
  /\ apiTimeout = "unset"
  /\ payload = <<>>
  /\ accumulatedContent = <<>>
  /\ cpc = "idle"
  /\ sends = 0
  /\ route \in StreamRoutes
  /\ bodyKind = "none"
  /\ messages = <<>>
  /\ apiKey \in BOOLEAN
  /\ pc = "idle"
  /\ formattedMessages = <<>>
  /\ transmitted = <<>>
  /\ apiCalls = 0
  /\ response = NoResponse
  /\ caught = NoError
  /\ RelayStart
  /\ ValidateIdle
  /\ CompletionIdle
  /\ StreamIdle

ClientNext ==
  \/ setInputMessage /\ UNCHANGED <<validateVars, completionVars, relayVars, streamVars>>
  \/ handleSendMessage /\ UNCHANGED <<validateVars, completionVars, relayVars, streamVars>>
  \/ Receive /\ UNCHANGED <<validateVars, completionVars, relayVars, streamVars, clientVars>>
  \/ ApiRespond /\ UNCHANGED <<validateVars, completionVars, relayVars, streamVars, clientVars>>
  \/ apiTimeoutFires /\ UNCHANGED <<validateVars, completionVars, relayVars, streamVars>>
  \/ fetchResolves /\ UNCHANGED <<validateVars, completionVars, relayVars, streamVars>>
  \/ fetchRejects /\ UNCHANGED <<validateVars, completionVars, relayVars, streamVars>>
  \/ readChunk /\ UNCHANGED <<validateVars, completionVars, relayVars, streamVars>>
  \/ readDone /\ UNCHANGED <<validateVars, completionVars, relayVars, streamVars>>
  \/ readFails /\ UNCHANGED <<validateVars, completionVars, relayVars, streamVars>>

SpecClient == ClientInit /\ [][ClientNext]_vars


(***************************************************************************)
(* Helpers used to state the properties.                                   *)
(***************************************************************************)
RolesOf(s) == [i \in 1..Len(s) |-> s[i].role]

IsSystem(m) == m.role = "system"

SystemTurns(s) == SelectSeq(s, IsSystem)

IsPrefix(a, b) == Len(a) <= Len(b) /\ SubSeq(b, 1, Len(a)) = a

RECURSIVE LeadingSystems(_)
LeadingSystems(s) ==
  IF s # <<>> /\ Head(s).role = "system"
  THEN <<Head(s)>> \o LeadingSystems(Tail(s))
  ELSE <<>>

\* a is b with some elements removed (order and elements kept)
RECURSIVE IsSubsequence(_, _)
IsSubsequence(a, b) ==
  IF a = <<>> THEN TRUE
  ELSE IF b = <<>> THEN FALSE
  ELSE IF Head(a) = Head(b) THEN IsSubsequence(Tail(a), Tail(b))
  ELSE IsSubsequence(a, Tail(b))

NoAdjacentSameRole(s) ==
  \A i \in 1..(Len(s) - 1) :
    s[i].role # "system" => s[i].role # s[i + 1].role

FirstNonSystemIsUser(s) ==
  \A i \in 1..Len(s) :
    (s[i].role # "system" /\ \A j \in 1..(i - 1) : s[j].role = "system")
      => s[i].role = "user"

SystemsOnlyAtHead(s) ==
  \A i \in 1..Len(s) : \A j \in 1..Len(s) :
    (s[i].role = "system" /\ s[j].role # "system") => i < j

EndsWithUserOrEmpty(s) == s = <<>> \/ s[Len(s)].role = "user"

(***************************************************************************)
(* C1: for every history, validateMessages' output is empty or ends with a *)
(* user turn.  The code keeps a lone head of system turns: [system] is     *)
(* returned for the input [system].                                        *)
(***************************************************************************)
C1_EndsWithUserOrEmpty ==
  vpc = "done" => EndsWithUserOrEmpty(vResult)

(***************************************************************************)
(* C2: no two adjacent output turns share a non-system role, and the       *)
(* first non-system turn of the output is a user turn.                     *)
(***************************************************************************)
C2_Alternation ==
  vpc = "done" => NoAdjacentSameRole(vResult) /\ FirstNonSystemIsUser(vResult)

\* a history with a repeated user turn was pruned and still holds a
\* user/assistant/user exchange
C2_Witness ==
  /\ vpc = "done"
  /\ RolesOf(vMessages) = <<"user", "user", "assistant", "user">>
  /\ RolesOf(vResult) = <<"user", "assistant", "user">>

(***************************************************************************)
(* C3: in the output no system turn comes after a user or assistant turn,  *)
(* and the output's system turns are taken from the input's leading run of *)
(* system turns only: a system turn that follows a non-system turn of the  *)
(* input (kept or dropped) is not in the output.                           *)
(***************************************************************************)
C3_SystemOnlyAtHead ==
  vpc = "done" =>
    /\ SystemsOnlyAtHead(vResult)
    /\ IsPrefix(SystemTurns(vResult), LeadingSystems(vMessages))

\* a system turn follows a dropped assistant turn and is itself dropped
C3_Witness ==
  /\ vpc = "done"
  /\ Len(vMessages) >= 3
  /\ vMessages[1].role = "assistant"
  /\ vMessages[2].role = "system"
  /\ vMessages[3].role = "user"
  /\ RolesOf(vResult) = <<"user">>

DropTerminalNonUser(s) ==
  IF s # <<>> /\ s[Len(s)].role # "user" THEN SubSeq(s, 1, Len(s) - 1) ELSE s

C6_SubsequenceTerminalDropped ==
  vpc = "done" =>
    /\ IsSubsequence(vResult, vMessages)
    /\ vResult = DropTerminalNonUser(prunedMessages(vMessages))

(***************************************************************************)
(* C7 as claimed: [user, user, assistant] gives [user, assistant].         *)
(***************************************************************************)
C7_ExampleAsClaimed ==
  (vpc = "done" /\ RolesOf(vMessages) = <<"user", "user", "assistant">>)
    => RolesOf(vResult) = <<"user", "assistant">>

(***************************************************************************)
(* C7 amended: [user, user, assistant] gives the first user turn alone:    *)
(* the second user turn is skipped and the trailing assistant turn is      *)
(* popped.                                                                 *)
(***************************************************************************)
C7_ExampleFirstUserOnly ==
  (vpc = "done" /\ RolesOf(vMessages) = <<"user", "user", "assistant">>)
    => vResult = <<vMessages[1]>>

C7_Witness ==
  /\ vpc = "done"
  /\ RolesOf(vMessages) = <<"user", "user", "assistant">>
  /\ vMessages[1].content # vMessages[2].content

(***************************************************************************)
(* C4: the message list a POST handler transmits to the completion API has *)
(* at most one system turn, placed first, strictly alternating user and    *)
(* assistant turns after it, and a user turn as its last element, for      *)
(* every messages array of the request (empty or without a user turn       *)
(* included).                                                              *)
(***************************************************************************)
C4_TransmittedWellFormed ==
  apiCalls > 0 =>
    /\ Len(SystemTurns(transmitted)) <= 1
    /\ SystemsOnlyAtHead(transmitted)
    /\ NoAdjacentSameRole(transmitted)
    /\ FirstNonSystemIsUser(transmitted)
    /\ transmitted # <<>>
    /\ transmitted[Len(transmitted)].role = "user"

(***************************************************************************)
(* Failures of one request.                                                *)
(***************************************************************************)
Apologies == {"apologyInternal", "apologyConfig", "apologyGeneric", "apologyTimeout"}

\* the handler answered a request it could not serve
PreResponseFailure ==
  pc = "responded" /\ (bodyKind # "ok" \/ ~apiKey \/ caught # NoError)

\* processStream caught an error after the response was returned
RelayFailure == \E i \in 1..Len(written) : written[i].kind = "error"

C9_CitationsAlwaysAppended ==
  (pc = "closed" /\ citations > 0) =>
    /\ written # <<>>
    /\ written[Len(written)] = Wr("citations", <<citations>>)
    /\ \A i \in 1..(Len(written) - 1) : written[i].kind = "content"

(***************************************************************************)
(* C9 amended: in the two citation-appending handlers, when the upstream   *)
(* supplied a non-empty citation list and the stream ended without a       *)
(* failure, the body is the content writes followed by the last non-empty  *)
(* list supplied, written once, after every content write and before the   *)
(* close; when the relay failed the error text is written and no citation  *)
(* list; no citation list is written while the stream is open.             *)
(***************************************************************************)
C9_CitationsAppendedOnNormalEnd ==
  route \in {"streamCitations", "streamSentence"} =>
    /\ (pc = "closed" /\ citations > 0 /\ ~RelayFailure) =>
         /\ written[Len(written)] = Wr("citations", <<citations>>)
         /\ \A i \in 1..(Len(written) - 1) : written[i].kind = "content"
    /\ (pc = "closed" /\ (citations = 0 \/ RelayFailure)) =>
         \A i \in 1..Len(written) : written[i].kind # "citations"
    /\ pc # "closed" =>
         \A i \in 1..Len(written) : written[i].kind = "content"

\* content, then a first list, then a second list: the second is appended
C9_Witness ==
  /\ pc = "closed"
  /\ route = "streamCitations"
  /\ citations = 2
  /\ Len(written) = 3
  /\ written[1].kind = "content" /\ written[2].kind = "content"
  /\ written[3] = Wr("citations", <<2>>)

CompletionFailed ==
  caught # NoError /\ caught.message \notin {"bodyParse", "destructureNull"}

\* a step makes no call once the first has been made or refused, and
\* replaces neither a response nor a caught error
NoSecondAttempt ==
  /\ (pc # "received" => apiCalls' = apiCalls)
  /\ (response # NoResponse => response' = response)
  /\ (caught # NoError => caught' = caught)

C11_NoRetries ==
  /\ [](apiCalls <= 1)
  /\ [](CompletionFailed =>
          (/\ pc = "responded"
           /\ response.status = 500
           /\ response.error = caught.message
           /\ written = <<>>
           /\ closed = 0))
  /\ [][NoSecondAttempt]_vars

\* the one call failed on the network and was reported
C11_Witness ==
  /\ pc = "responded"
  /\ apiCalls = 1
  /\ caught = [name |-> "TypeError", message |-> "network"]
  /\ response = errorResponse(completionApology(route, caught), "network")

(***************************************************************************)
(* C12 as claimed: when the completion call fails, every POST handler      *)
(* answers with the timeout apology exactly when the caught error's        *)
(* message contains 'timed out', and with the generic apology otherwise.   *)
(***************************************************************************)
C12_TimeoutApologyBySubstring ==
  CompletionFailed =>
    /\ response.content \in {"apologyTimeout", "apologyGeneric"}
    /\ response.content = "apologyTimeout" <=> caught.message \in TimedOutMessages

(***************************************************************************)
(* C12 amended: the handlers that distinguish timeouts (every handler but  *)
(* the first version of route.ts) answer with the timeout apology exactly  *)
(* when the caught error's message contains 'timed out'; the error's name  *)
(* is tested too, but an AbortError never reaches the handler: the utility *)
(* replaces it by an Error whose message says 'timed out'.  The first      *)
(* version of route.ts answers every failure with the generic apology.     *)
(***************************************************************************)
C12_TimeoutApologyExceptFirstVersion ==
  CompletionFailed =>
    /\ response.content \in {"apologyTimeout", "apologyGeneric"}
    /\ caught.name # "AbortError"
    /\ route # "json" =>
         (response.content = "apologyTimeout" <=> caught.message \in TimedOutMessages)
    /\ route = "json" => response.content = "apologyGeneric"

\* an upstream error text that says 'timed out' gets the timeout apology
C12_Witness ==
  /\ pc = "responded"
  /\ route = "streamGemini"
  /\ caught = [name |-> "Error", message |-> "apiStatusTimedOutText"]
  /\ response.content = "apologyTimeout"

(***************************************************************************)
(* C13 as claimed: a request whose body has no messages array is answered  *)
(* with status 400 and the error 'Invalid request: messages array is       *)
(* required', a request arriving without API key with status 500 and the   *)
(* error 'Missing API key'; no outbound call is made in either case, and   *)
(* the messages check is decided first.                                    *)
(***************************************************************************)
C13_EarlyReturns ==
  /\ (pc = "responded" /\ bodyKind \in {"nullBody", "noMessages"}) =>
       /\ response = [status |-> 400, content |-> "none", error |-> "invalidRequest"]
       /\ apiCalls = 0 /\ transmitted = <<>>
  /\ (pc = "responded" /\ bodyKind = "ok" /\ ~apiKey) =>
       /\ response.status = 500 /\ response.error = "missingKey"
       /\ apiCalls = 0 /\ transmitted = <<>>

(***************************************************************************)
(* C13 amended: the same for every body that is not null; the body `null`  *)
(* has no messages array either, but reading `messages` from it throws and *)
(* the request is answered with status 500 by the outer catch, again       *)
(* without outbound call.                                                  *)
(***************************************************************************)
C13_EarlyReturnsNonNullBody ==
  /\ (pc = "responded" /\ bodyKind = "noMessages") =>
       /\ response = [status |-> 400, content |-> "none", error |-> "invalidRequest"]
       /\ apiCalls = 0 /\ transmitted = <<>>
  /\ (pc = "responded" /\ bodyKind = "nullBody") =>
       /\ response = errorResponse("apologyInternal", "destructureNull")
       /\ apiCalls = 0 /\ transmitted = <<>>
  /\ (pc = "responded" /\ bodyKind = "ok" /\ ~apiKey) =>
       /\ response = errorResponse("apologyConfig", "missingKey")
       /\ apiCalls = 0 /\ transmitted = <<>>
  /\ (bodyKind # "ok" \/ ~apiKey) => pc \in {"received", "responded"}

\* neither messages nor API key: the messages check answers
C13_Witness ==
  /\ pc = "responded"
  /\ bodyKind = "noMessages"
  /\ ~apiKey
  /\ response.status = 400

(***************************************************************************)
(* C14: in the Gemini-backed relay every character of the payloads is      *)
(* passed on exactly once and in arrival order, to the rewrite or raw to   *)
(* the client: the texts written follow one another without gap or         *)
(* overlap from the first character received, up to the start of the       *)
(* pending buffer while the stream is open and up to the last character    *)
(* received once it is closed.                                             *)
(***************************************************************************)
\* the offset reached when the texts written follow one another from the
\* offset `at`; -1 when one of them leaves a gap or overlaps
RECURSIVE PassedOnUpTo(_, _)
PassedOnUpTo(wr, at) ==
  IF wr = <<>> THEN at
  ELSE IF Head(wr).kind = "error" THEN PassedOnUpTo(Tail(wr), at)
  ELSE IF Head(wr).text[1] = at THEN PassedOnUpTo(Tail(wr), Head(wr).text[2])
  ELSE -1

C14_EveryCharacterOnce ==
  route = "streamGemini" =>
    /\ pc = "relaying" =>
         PassedOnUpTo(written, 0) = StrLen(fullContent) - StrLen(contentBuffer)
    /\ pc = "closed" => PassedOnUpTo(written, 0) = StrLen(fullContent)

(***************************************************************************)
(* C15: the timeout of streamPerplexityCompletion is reset on each chunk:  *)
(* the stream is errored with 'Stream processing timed out' only when      *)
(* STREAM_TIMEOUT ms have passed since its last chunk, whatever its total  *)
(* duration, and a stream that has completed stays completed.              *)
(***************************************************************************)
TimedOutOnlyWhenIdle ==
  sState = "timedOut" => sNow - lastChunkAt >= STREAM_TIMEOUT

CompletedStays ==
  sState = "done" => sState' = "done"

C15_TimeoutResetPerChunk ==
  /\ []TimedOutOnlyWhenIdle
  /\ [][CompletedStays]_vars

(***************************************************************************)
(* The chat state handleSendMessage read: the chat without the user        *)
(* message and the placeholder the handler appended.                       *)
(***************************************************************************)
ChatAtSend == SubSeq(cMessages, 1, Len(cMessages) - 2)

\* the system and welcome messages of initializeChat followed by at least
\* one answered question
IsAnsweredConversation(chat) ==
  LET ns == SelectSeq(chat, IsNonSystem) IN
    /\ Len(chat) = Len(ns) + 1
    /\ chat[1].role = "system"
    /\ Len(ns) >= 3
    /\ Len(ns) % 2 = 1
    /\ \A i \in 1..Len(ns) :
         ns[i].role = (IF i % 2 = 1 THEN "assistant" ELSE "user")

Placeholder == cMessages[Len(cMessages)]

HasNotice(text) == \E i \in 1..Len(text) : <<text[i]>> = NoticeText

(***************************************************************************)
(* C16: the history in the request omits only the leading assistant        *)
(* (welcome) message: after a welcome message and at least one answered    *)
(* question, the latest assistant reply and the user turn before it are    *)
(* in the payload, in order, just before the new user message.             *)
(***************************************************************************)
C16_LatestExchangeInPayload ==
  (cpc = "waiting" /\ IsAnsweredConversation(ChatAtSend)) =>
    LET ns == SelectSeq(ChatAtSend, IsNonSystem)
        n == Len(ns)
        m == Len(payload)
    IN /\ m >= 4
       /\ payload[m] = [role |-> "user", content |-> TypedText]
       /\ payload[m - 1] = [role |-> "assistant", content |-> ns[n].content]
       /\ payload[m - 2] = [role |-> "user", content |-> ns[n - 1].content]

(***************************************************************************)
(* C17: for every chat state and every non-blank input, the payload is one *)
(* system turn followed by turns that alternate strictly, begin with a     *)
(* user turn and end with a user turn holding the current input; there are *)
(* at most 9 non-system turns.                                             *)
(***************************************************************************)
C17_PayloadWellFormed ==
  sends > 0 =>
    /\ Len(payload) >= 2
    /\ Len(payload) - 1 <= 9
    /\ payload[1].role = "system"
    /\ \A i \in 2..Len(payload) :
         payload[i].role = (IF i % 2 = 0 THEN "user" ELSE "assistant")
    /\ payload[Len(payload)] = [role |-> "user", content |-> TypedText]

\* eight alternating turns are kept and the input is the ninth
C17_Witness ==
  /\ cpc = "waiting"
  /\ Len(payload) = 10
  /\ payload[9].role = "assistant"

(***************************************************************************)
(* C18: the server keeps what the client built: for every payload of       *)
(* handleSendMessage, the list the stream handler formats and the list     *)
(* validateMessages lets through to the completion API hold exactly the    *)
(* payload's non-system turns, in the same order.                          *)
(***************************************************************************)
C18_ServerKeepsClientTurns ==
  (sends > 0 /\ apiCalls > 0) =>
    /\ messages = payload
    /\ SelectSeq(formattedMessages, IsNonSystem) = SelectSeq(payload, IsNonSystem)
    /\ SelectSeq(transmitted, IsNonSystem) = SelectSeq(payload, IsNonSystem)
    /\ Len(SystemTurns(transmitted)) = 1

\* a payload cut by the limit of eight reached the completion API whole
C18_Witness ==
  /\ apiCalls = 1
  /\ route = "streamGemini"
  /\ IsAnsweredConversation(ChatAtSend)
  /\ Len(payload) = 8
  /\ Len(transmitted) = 8

(***************************************************************************)
(* C19: when the timer of 15 seconds fires while the request is still      *)
(* waiting for its response, the placeholder message is extended with the  *)
(* 'still processing' notice; the notice is never added once a response or *)
(* an error has arrived.                                                   *)
(***************************************************************************)
NoticeWhenFired ==
  (apiTimeout = "fired" /\ cpc = "waiting" /\ isProcessing) =>
    HasNotice(Placeholder.content)

NoLateNotice ==
  (cpc # "waiting" /\ cMessages # <<>> /\ cMessages' # <<>>) =>
    (HasNotice(cMessages'[Len(cMessages')].content) => HasNotice(Placeholder.content))

C19_NoticeAfterDelay ==
  /\ []NoticeWhenFired
  /\ [][NoLateNotice]_vars

(***************************************************************************)
(* C20: in the Gemini-backed relay a data line leaves the buffer flushed   *)
(* before the end of the stream only when the buffer, the line included,   *)
(* holds at least 50 characters and ends a complete thought, or holds at   *)
(* least 200 characters, or 5000 ms have passed since the last flush (the  *)
(* start of the relay before the first flush); a buffer shorter than 50    *)
(* characters is never flushed mid-stream.                                 *)
(***************************************************************************)
FlushedMidStream ==
  /\ route = "streamGemini"
  /\ pc = "relaying" /\ pc' = "relaying"
  /\ Len(fullContent') = Len(fullContent) + 1
  /\ (contentBuffer' = <<>> \/ written' # written)

FlushConditions ==
  LET buf == Append(contentBuffer, fullContent'[Len(fullContent')])
      n == StrLen(buf)
  IN /\ n >= 50
     /\ \/ isCompleteThought(buf)
        \/ n >= 200
        \/ now' - lastProcessTime >= 5000

C20_FlushOnlyWhenDue ==
  [][FlushedMidStream => FlushConditions]_vars

\* sixty characters that end no thought were flushed after 5000 ms
C20_Witness ==
  /\ route = "streamGemini" /\ pc = "relaying"
  /\ fullContent = <<[len |-> 60, ends |-> FALSE, marker |-> FALSE]>>
  /\ contentBuffer = <<>>
  /\ lastProcessTime = 5000
  /\ written # <<>>

(***************************************************************************)
(* C21: in the Gemini-backed relay the pending buffer holds fewer than     *)
(* MAX_BUFFER_SIZE (200) characters after each data line has been          *)
(* processed, whatever the lines, their timing and the outcome of the      *)
(* rewrite: a buffer of 200 characters or more is at least                 *)
(* MIN_CONTENT_LENGTH long and oversize, so it is flushed and emptied, by   *)
(* line 222 or by the catch of lines 227-229.                              *)
(***************************************************************************)
C21_BufferBelowMax ==
  StrLen(contentBuffer) < MAX_BUFFER_SIZE

\* 60 characters that end no thought were kept, and the 200 characters that
\* followed at once made the buffer oversize: it was emptied
C21_Witness ==
  /\ route = "streamGemini" /\ pc = "relaying"
  /\ fullContent = <<[len |-> 60, ends |-> FALSE, marker |-> FALSE],
                     [len |-> 200, ends |-> FALSE, marker |-> FALSE]>>
  /\ now = 0
  /\ contentBuffer = <<>>
  /\ written # <<>>

(***************************************************************************)
(* C22: in the Gemini-backed relay, once the upstream stream ends or       *)
(* fails, the client stream is closed, and it is closed once: whether the  *)
(* upstream ended normally, the read failed or the final rewrite failed.   *)
(* Content held in the buffer at that moment is written before the close,  *)
(* raw or as the text the rewrite made of it, and nothing is written       *)
(* after the close.                                                        *)
(***************************************************************************)
ClosesGemini ==
  route = "streamGemini" /\ closed' = closed + 1

BufferWrittenBeforeClose ==
  LET to == StrLen(fullContent)
      held == <<to - StrLen(contentBuffer), to>>
  IN \/ contentBuffer = <<>>
     \/ \E i \in (Len(written) + 1)..Len(written') :
          /\ written'[i].kind \in {"raw", "rewritten"}
          /\ written'[i].text = held

NothingAfterClose ==
  closed >= 1 => (written' = written /\ closed' = closed)

C22_ClosedOnceBufferWritten ==
  /\ [](closed <= 1)
  /\ ((route = "streamGemini" /\ pc = "relaying") ~> (pc = "closed" /\ closed = 1))
  /\ [][ClosesGemini => BufferWrittenBeforeClose]_vars
  /\ [][NothingAfterClose]_vars

\* the read failed while 20 characters were held: they were written raw,
\* then the error text, and the stream was closed
C22_Witness ==
  /\ route = "streamGemini" /\ pc = "closed" /\ closed = 1
  /\ contentBuffer = <<[len |-> 20, ends |-> FALSE, marker |-> FALSE]>>
  /\ Len(written) >= 2
  /\ written[Len(written)].kind = "error"
  /\ written[Len(written) - 1] = Wr("raw", <<StrLen(fullContent) - 20, StrLen(fullContent)>>)

(***************************************************************************)
(* C23: in the sentence-buffering relay the initial buffering only delays  *)
(* output.  Nothing is written while the stream is open and the buffered   *)
(* initial content has not ended with '.', '!' or '?' and optional white   *)
(* space; every content delta received is written, in arrival order, by    *)
(* the time the client stream is closed; and when the upstream ended       *)
(* normally the writes are exactly these deltas followed by the citation   *)
(* text, if any.  The code drops the buffered content when the read fails  *)
(* before the first sentence end.                                          *)
(***************************************************************************)
RECURSIVE ContentWritten(_)
ContentWritten(wr) ==
  IF wr = <<>> THEN <<>>
  ELSE (IF Head(wr).kind = "content" THEN Head(wr).text ELSE <<>>)
         \o ContentWritten(Tail(wr))

NothingBeforeSentenceEnd ==
  (pc = "relaying" /\ ~endsSentence(initialContentBuffer)) => written = <<>>

DeltasWrittenAtClose ==
  closed >= 1 => ContentWritten(written) = fullContent

ExactOnNormalEnd ==
  (closed >= 1 /\ ~RelayFailure) =>
     /\ ContentWritten(written) = fullContent
     /\ \A i \in 1..Len(written) :
          written[i].kind = "citations" => (i = Len(written) /\ citations > 0)
     /\ citations > 0 => written[Len(written)] = Wr("citations", <<citations>>)

C24_EmptyFailsBeforeRequest ==
  (utility \in Utilities /\ vpc = "done" /\ vResult = <<>>) =>
     /\ upc = "rejected"
     /\ uError = "noValidMessages"
     /\ uFetches = 0
     /\ uTimer = "unset"

\* the streaming utility was called with a list that holds messages, of
\* which the validation kept none
C24_Witness ==
  /\ utility = "streamPerplexityCompletion"
  /\ vMessages # <<>>
  /\ vpc = "done" /\ vResult = <<>>
  /\ upc = "rejected"

(***************************************************************************)
(* C25: the list a POST handler passes to the completion utility has       *)
(* exactly one system turn, which is its first element, whether the        *)
(* request's messages array holds no system turn, one or several, at any   *)
(* position; the rest of the list is the non-system turns of the request,  *)
(* unchanged and in their original order.                                  *)
(***************************************************************************)
IsUserOrAssistant(m) == m.role \in {"user", "assistant"}

PassedToUtility ==
  bodyKind = "ok" /\ apiKey /\ pc # "received"

C25_OneSystemTurnFirst ==
  PassedToUtility =>
    /\ formattedMessages # <<>>
    /\ formattedMessages[1].role = "system"
    /\ Len(SystemTurns(formattedMessages)) = 1
    /\ Tail(formattedMessages) = SelectSeq(messages, IsUserOrAssistant)

\* the request held two system turns after a user turn
C25_Witness ==
  /\ PassedToUtility
  /\ Len(messages) = 3
  /\ messages[1].role = "user"
  /\ messages[2].role = "system"
  /\ messages[3].role = "system"
  /\ pc = "fetching"

=============================================================================
